---- MODULE Spec2Model ----
(***************************************************************************)
(* Checkout, promotion pricing and settlement of SmartSales365            *)
(* (backend/orders, backend/catalog).  Amounts are held in cents.          *)
(*                                                                         *)
(* The database is PostgreSQL at its default isolation (READ COMMITTED):   *)
(* a statement reads the last committed rows, an UPDATE or SELECT FOR      *)
(* UPDATE takes a row lock that is held until the transaction ends, and    *)
(* the writes of a transaction become visible at its commit.  The settings *)
(* do not enable ATOMIC_REQUESTS, so a write outside transaction.atomic()  *)
(* commits at once.                                                        *)
(***************************************************************************)
EXTENDS Integers, Sequences, FiniteSets, TLC

\* ---------------------------------------------------------------- bounds
\* NumOrders and NumReq are the order rows and the requests that can exist;
\* MaxCheckouts is the number of checkouts made under Spec and SpecSeq.
\* The status of an order is one of Order.Status, or "NONE" before the
\* checkout that creates the row.
NumProducts == 2
NumOrders == 2
NumReq == 2
MaxStock == 3
MaxQty == 2
MaxLines == 2
MaxCheckouts == 1
MaxPrice == 2
MaxPromotions == 1
MaxCandidates == 3
MaxTime == 3
MaxEnginePromotions == 2

Products == 1..NumProducts
Orders == 1..NumOrders
Req == 1..NumReq

\* the statuses of a payment intent that a retrieve may report
IntentStatuses ==
  {"requires_payment_method", "requires_confirmation", "requires_action",
   "processing", "succeeded"}

\* the statuses for which save() answers "se esta procesando"
StillProcessingOnly == {"processing"}
StillProcessing == {"processing", "requires_confirmation"}

VARIABLES
  stock,          \* Product.stock of every product (committed)
  orders,         \* the Order rows (committed)
  payments,       \* the OrderPayment rows (committed)
  intent,         \* provider side: "none", "open" or "succeeded" per intent
  req,            \* the requests in progress: position and local values
  orderLock,      \* row lock on an Order row: the holding request, or 0
  prodLock,       \* row lock on a Product row: the holding request, or 0
  decCount,       \* history: committed stock decrements of each order's items
  products,       \* Product.price, is_active, name and sku of every product
  promotions,     \* the Promotion rows, in the order of their queryset
  checkout,       \* the last checkout request: its cart and its outcome
  candidates,     \* the candidate promotions handed to the selector
  pricing,        \* the selector's call and the PromotionPricing it returned
  now             \* timezone.now()

vars == <<stock, orders, payments, intent, req,
          orderLock, prodLock, decCount,
          products, promotions, checkout, candidates, pricing, now>>

\* the catalog and the selector's values, which settlement leaves alone
shopvars == <<products, promotions, candidates, pricing, now>>

\* ------------------------------------------------------------ data model
NoItems == [p \in Products |-> 0]

\* amounts are in cents; items is the quantity of the order's OrderItem
\* rows per product, order_items the rows themselves
NoOrder ==
  [status |-> "NONE", fulfillment_status |-> "PENDING", paid_at |-> 0,
   items |-> NoItems, order_items |-> {},
   subtotal_amount |-> 0, discount_amount |-> 0, tax_amount |-> 0,
   shipping_amount |-> 0, total_amount |-> 0,
   stripe_payment_intent_id |-> 0]

IdleReq ==
  [kind |-> "none", pc |-> "idle", order |-> 0, intent |-> 0, event |-> "none",
   obs |-> "none", mfulfillment |-> "PENDING",
   worder |-> "none", wpay |-> "none", wpayid |-> 0, result |-> "none",
   push |-> "none", sig_header |-> "none", payload |-> "none"]

\* Product.stock: PositiveIntegerField with MinValueValidator(1), and the
\* table constraint product_stock_gt_zero
ProductRowValidOpen(s) == TRUE
ProductRowValid(s) == s >= 0 /\ s > 0

\* Product.price (cents, above zero by product_price_gt_zero), is_active and
\* category; every product is in a category of its own
ProductRows ==
  [price : 1..MaxPrice, is_active : BOOLEAN, name : {1}, sku : {1}]

\* Promotion: discount_value is stored with two decimals and is held here in
\* hundredths (promotion_discount_gt_zero, promotion_percent_lte_100)
Scopes == {"GLOBAL", "CATEGORY", "PRODUCT"}
AmountValues == 1..(MaxPrice + 1)
PercentValues == {5000, 7500, 10000}

DiscountValues(discount_type) ==
  IF discount_type = "PERCENT" THEN PercentValues ELSE AmountValues

\* end_date is nullable
NoDate == 0

\* a promotion that is active, started at instant 1 and has no end
Promotion(scope, discount_type, discount_value, categories, prods) ==
  [scope |-> scope, discount_type |-> discount_type,
   discount_value |-> discount_value, categories |-> categories,
   products |-> prods, is_active |-> TRUE, start_date |-> 1,
   end_date |-> NoDate]

AllPromotionRows ==
  UNION {
    {Promotion("GLOBAL", t, v, {}, {})} \cup
    {Promotion("CATEGORY", t, v, {c}, {}) : c \in Products} \cup
    {Promotion("PRODUCT", t, v, {}, {p}) : p \in Products}
    : t \in {"PERCENT", "AMOUNT"}, v \in AmountValues \cup PercentValues }

PromotionRows ==
  {row \in AllPromotionRows :
     row.discount_value \in DiscountValues(row.discount_type)}

\* the candidates drawn for the selector, which reads only the scope, the
\* type and the value of a candidate
CandidateRows ==
  {row \in PromotionRows : row.categories \subseteq {1} /\ row.products \subseteq {1}}

\* the promotions of the catalog the engine runs on: inactive or active,
\* with any validity window the table accepts (promotion_end_after_start)
Windows ==
  {w \in [start_date : 1..MaxTime, end_date : {NoDate} \cup 1..MaxTime] :
     w.end_date = NoDate \/ w.end_date > w.start_date}

EngineRows ==
  {[row EXCEPT !.is_active = a, !.start_date = w.start_date,
               !.end_date = w.end_date] :
     row \in {x \in PromotionRows : x.discount_value \in {2, 5000}},
     a \in BOOLEAN, w \in Windows}

NoPromotion == Promotion("NONE", "NONE", 0, {}, {})

\* PromotionPricing, and the None of the selector
None == [promotion |-> NoPromotion, discount_per_unit |-> 0, final_price |-> 0]

\* the selector's call: the product it was called on (0: not called) and
\* what it returned
NoPricing == [product |-> 0, best |-> None, engine |-> {}, moment |-> 0]

\* the outcome of a checkout request
NoCheckout == [cart |-> <<>>, result |-> "none", order |-> 0]

\* the cart of a checkout request: lines (product_id, quantity >= 1); the
\* product id 0 is the id of no product
CartLines == [product_id : 0..NumProducts, quantity : 1..MaxQty]
Carts == UNION {[1..n -> CartLines] : n \in 0..MaxLines}

\* validate_cart: the quantities of the cart's lines summed by product id
aggregatedFirstLine(cart, p) ==
  IF \E i \in 1..Len(cart) : cart[i].product_id = p
    THEN cart[CHOOSE i \in 1..Len(cart) :
                /\ cart[i].product_id = p
                /\ \A j \in 1..(i - 1) : cart[j].product_id # p].quantity
    ELSE 0

RECURSIVE aggregated(_, _)
aggregated(cart, p) ==
  IF cart = <<>> THEN 0
  ELSE (IF Head(cart).product_id = p THEN Head(cart).quantity ELSE 0)
       + aggregated(Tail(cart), p)

\* no order, no request, every product in full stock
InitDb ==
  /\ stock = [p \in Products |-> MaxStock]
  /\ orders = [o \in Orders |-> NoOrder]
  /\ payments = {}
  /\ intent = [o \in Orders |-> "none"]
  /\ req = [r \in Req |-> IdleReq]
  /\ orderLock = [o \in Orders |-> 0]
  /\ prodLock = [p \in Products |-> 0]
  /\ decCount = [o \in Orders |-> 0]
  /\ checkout = NoCheckout
  /\ now = 1

\* the selector has not been called
InitSelector == candidates = <<>> /\ pricing = NoPricing

\* every product active at price 1, no promotion
Init ==
  /\ InitDb
  /\ InitSelector
  /\ products = [p \in Products |->
                   [price |-> 1, is_active |-> TRUE, name |-> 1, sku |-> 1]]
  /\ promotions = <<>>

\* ----------------------------------------------------- promotion pricing
\* Decimal.quantize(Decimal("0.01")) under the default rounding
\* (ROUND_HALF_EVEN): x is an amount in 1/Scale of a cent
Scale == 10000

quantizeHalfUp(x) ==
  LET q == x \div Scale
      rem == x % Scale
  IN IF 2 * rem >= Scale THEN q + 1 ELSE q

quantize(x) ==
  LET q == x \div Scale
      rem == x % Scale
  IN IF 2 * rem > Scale \/ (2 * rem = Scale /\ q % 2 = 1) THEN q + 1 ELSE q

\* _calculate_discount: the discount of a promotion on a unit price, in cents
_calculate_discountNoClamp(unit_price, promotion) ==
  IF unit_price <= 0 THEN 0
  ELSE LET value == promotion.discount_value
           discount == IF promotion.discount_type = "PERCENT"
                         THEN unit_price * value
                         ELSE value * Scale
       IN quantize(IF discount < 0 THEN 0 ELSE discount)

_calculate_discount(unit_price, promotion) ==
  IF unit_price <= 0 THEN 0
  ELSE LET value == promotion.discount_value
           discount == IF promotion.discount_type = "PERCENT"
                         THEN unit_price * value
                         ELSE value * Scale
           floored == IF discount < 0 THEN 0 ELSE discount
           clamped == IF floored > unit_price * Scale
                        THEN unit_price * Scale ELSE floored
       IN quantize(clamped)

scope_priority(scope) ==
  CASE scope = "PRODUCT" -> 0
    [] scope = "CATEGORY" -> 1
    [] scope = "GLOBAL" -> 2

\* the decision of the selector's loop body on a candidate's pricing
betterFirstWins(pr, best) ==
  \/ best = None
  \/ pr.discount_per_unit > best.discount_per_unit

betterScopeFirst(pr, best) ==
  \/ best = None
  \/ scope_priority(pr.promotion.scope) < scope_priority(best.promotion.scope)
  \/ /\ pr.promotion.scope = best.promotion.scope
     /\ pr.discount_per_unit > best.discount_per_unit

better(pr, best) ==
  \/ best = None
  \/ pr.discount_per_unit > best.discount_per_unit
  \/ /\ pr.discount_per_unit = best.discount_per_unit
     /\ scope_priority(pr.promotion.scope) < scope_priority(best.promotion.scope)

\* _select_best_promotion: the loop over the candidates from the i-th on
RECURSIVE select_from(_, _, _, _)
select_from(unit_price, cands, i, best) ==
  IF i > Len(cands) THEN best
  ELSE LET promotion == cands[i]
           discount == _calculate_discount(unit_price, promotion)
           pr == [promotion |-> promotion, discount_per_unit |-> discount,
                  final_price |-> unit_price - discount]
       IN IF discount <= 0 THEN select_from(unit_price, cands, i + 1, best)
          ELSE IF better(pr, best)
                 THEN select_from(unit_price, cands, i + 1, pr)
                 ELSE select_from(unit_price, cands, i + 1, best)

_select_best_promotion(unit_price, cands) ==
  select_from(unit_price, cands, 1, None)

\* every product is in a category of its own
category_id(p) == p

\* build_promotion_pricing_map: the filters on is_active, start_date and
\* end_date of its query
is_currentAnyEnd(row, moment) ==
  row.is_active /\ row.start_date <= moment

is_current(row, moment) ==
  /\ row.is_active
  /\ row.start_date <= moment
  /\ row.end_date >= moment \/ row.end_date = NoDate

\* build_promotion_pricing_map: the promotions its query returns for the
\* products of product_list at the instant moment, in the queryset's order
promotions_of(product_list, moment) ==
  LET category_ids == {category_id(p) : p \in product_list}
      Matches(row) ==
        /\ is_current(row, moment)
        /\ \/ row.scope = "GLOBAL"
           \/ row.scope = "CATEGORY" /\ row.categories \cap category_ids # {}
           \/ row.scope = "PRODUCT" /\ row.products \cap product_list # {}
  IN SelectSeq(promotions, Matches)

\* _gather_candidates and the loop of build_promotion_pricing_map: the
\* candidates of product p are the global promotions, then those of its
\* category, then those of the product
candidates_of(rows, p) ==
  LET IsGlobal(row) == row.scope = "GLOBAL"
      OfCategory(row) ==
        row.scope = "CATEGORY" /\ category_id(p) \in row.categories
      OfProduct(row) == row.scope = "PRODUCT" /\ p \in row.products
  IN SelectSeq(rows, IsGlobal) \o SelectSeq(rows, OfCategory)
       \o SelectSeq(rows, OfProduct)

\* the map holds the products priced by a promotion; here every product of
\* product_list has an entry, None when no promotion prices it
build_promotion_pricing_map(product_list, moment) ==
  [p \in product_list |->
     _select_best_promotion(products[p].price,
       candidates_of(promotions_of(product_list, moment), p))]

\* PromotionPricingEngine.get
get(_map, p) == IF p \in DOMAIN _map THEN _map[p] ELSE None

\* an engine is built for product_list at the current instant and asked
\* for product p
engine_get(product_list, p) ==
  /\ pricing' = [product |-> p,
                 best |-> get(build_promotion_pricing_map(product_list, now),
                              p),
                 engine |-> product_list, moment |-> now]
  /\ pricing' # pricing
  /\ UNCHANGED <<stock, orders, payments, intent, req, orderLock, prodLock,
                 decCount, products, promotions, checkout, candidates, now>>

\* time passes
Tick ==
  /\ now < MaxTime
  /\ now' = now + 1
  /\ UNCHANGED <<stock, orders, payments, intent, req, orderLock, prodLock,
                 decCount, products, promotions, checkout, candidates,
                 pricing>>

\* the selector is called on product p with the candidates at hand
select(p) ==
  /\ pricing = NoPricing
  /\ pricing' = [product |-> p,
                 best |-> _select_best_promotion(products[p].price, candidates),
                 engine |-> {}, moment |-> 0]
  /\ UNCHANGED <<stock, orders, payments, intent, req, orderLock, prodLock,
                 decCount, products, promotions, checkout, candidates, now>>

\* transaction.atomic(): the block's writes are kept on a normal exit and
\* undone when an exception leaves the block
atomicKeepsAll(committed, written, ok) == written
atomic(committed, written, ok) == IF ok THEN written ELSE committed

\* ------------------------------------------------------------- checkout
\* the product id names an active product
foundAnyProduct(id) == id \in Products
found(id) == id \in Products /\ products[id].is_active

\* CheckoutStartSerializer.validate_cart: the error it raises, or "none"
validate_cart_error(cart) ==
  IF cart = <<>> THEN "empty_cart"
  ELSE IF \E i \in 1..Len(cart) : ~found(cart[i].product_id)
         THEN "unavailable"
  ELSE IF \E p \in Products : stock[p] < aggregated(cart, p)
         THEN "insufficient_stock"
  ELSE "none"

validate_cart(cart) == validate_cart_error(cart) = "none"

\* CheckoutViewSet.start: serializer.is_valid raises, nothing is written
start_invalid(o, cart) ==
  /\ orders[o].status = "NONE"
  /\ \A o2 \in Orders : o2 < o => orders[o2].status # "NONE"
  /\ ~validate_cart(cart)
  /\ checkout' = [cart |-> cart, result |-> validate_cart_error(cart),
                  order |-> 0]
  /\ UNCHANGED <<stock, orders, payments, intent, req, orderLock, prodLock,
                 decCount, shopvars>>

RECURSIVE SumUpTo(_, _)
SumUpTo(f, p) == IF p = 0 THEN 0 ELSE f[p] + SumUpTo(f, p - 1)

\* the OrderItem rows create() builds: one for each key of the aggregated
\* cart, priced by the pricing engine.  promotion_snapshot is the
\* as_public_dict of the pricing: the promotion's fields, the discount and
\* the final price (None: the empty dict)
order_itemsPerLine(cart, agg, engine) ==
  {[product |-> cart[i].product_id,
    product_name |-> products[cart[i].product_id].name,
    product_sku |-> products[cart[i].product_id].sku,
    promotion_snapshot |-> engine[cart[i].product_id],
    unit_price |-> IF engine[cart[i].product_id] # None
                     THEN engine[cart[i].product_id].final_price
                     ELSE products[cart[i].product_id].price,
    quantity |-> cart[i].quantity,
    total_price |-> (IF engine[cart[i].product_id] # None
                       THEN engine[cart[i].product_id].final_price
                       ELSE products[cart[i].product_id].price)
                    * cart[i].quantity,
    discount_amount |->
      engine[cart[i].product_id].discount_per_unit * cart[i].quantity]
   : i \in 1..Len(cart)}

order_items(cart, agg, engine) ==
  {[product |-> p,
    product_name |-> products[p].name,
    product_sku |-> products[p].sku,
    promotion_snapshot |-> engine[p],
    unit_price |-> IF engine[p] # None THEN engine[p].final_price
                   ELSE products[p].price,
    quantity |-> agg[p],
    total_price |-> (IF engine[p] # None THEN engine[p].final_price
                     ELSE products[p].price) * agg[p],
    discount_amount |-> engine[p].discount_per_unit * agg[p]]
   : p \in {q \in Products : agg[q] > 0}}

\* the total create() computes from the subtotal and the discounts
order_totalNoDiscount(subtotal, discount_total, tax_amount, shipping_amount) ==
  subtotal + tax_amount + shipping_amount

order_total(subtotal, discount_total, tax_amount, shipping_amount) ==
  subtotal - discount_total + tax_amount + shipping_amount

\* CheckoutStartSerializer.create on a valid cart: the totals, then in one
\* transaction the order, its items and the payment intent (pi_ok: the
\* provider creates the intent; otherwise create_stripe_payment_intent
\* raises and the block is left by the exception)
create(o, cart, pi_ok) ==
  /\ orders[o].status = "NONE"
  /\ \A o2 \in Orders : o2 < o => orders[o2].status # "NONE"
  /\ validate_cart(cart)
  /\ LET agg == [p \in Products |-> aggregated(cart, p)]
         _map == build_promotion_pricing_map(
                   {p \in Products : agg[p] > 0}, now)
         engine == [p \in Products |-> get(_map, p)]
         subtotal == SumUpTo([p \in Products |-> products[p].price * agg[p]],
                             NumProducts)
         discount_total ==
           SumUpTo([p \in Products |-> engine[p].discount_per_unit * agg[p]],
                   NumProducts)
         tax_amount == 0
         shipping_amount == 0
         total == order_total(subtotal, discount_total, tax_amount,
                              shipping_amount)
         row == [status |-> "PENDING_PAYMENT",
                 fulfillment_status |-> "PENDING", paid_at |-> 0,
                 items |-> agg,
                 order_items |-> order_items(cart, agg, engine),
                 subtotal_amount |-> subtotal,
                 discount_amount |-> discount_total,
                 tax_amount |-> tax_amount,
                 shipping_amount |-> shipping_amount,
                 total_amount |-> total,
                 stripe_payment_intent_id |-> IF pi_ok THEN o ELSE 0]
     IN IF total <= 0
          THEN /\ checkout' = [cart |-> cart, result |-> "total_error",
                               order |-> 0]
               /\ UNCHANGED <<orders, intent>>
          ELSE /\ orders' = atomic(orders, [orders EXCEPT ![o] = row], pi_ok)
               /\ intent' = IF pi_ok THEN [intent EXCEPT ![o] = "open"]
                            ELSE intent
               /\ checkout' =
                    [cart |-> cart,
                     result |-> IF pi_ok THEN "created" ELSE "intent_error",
                     order |-> IF pi_ok THEN o ELSE 0]
  /\ UNCHANGED <<stock, payments, req, orderLock, prodLock,
                 decCount, shopvars>>

\* ---------------------------------------------------- payment provider
\* the payment of an open intent succeeds; before that the intent moves
\* between the other statuses, and a retrieve may observe any of them
ProviderSucceeds(o) ==
  /\ intent[o] = "open"
  /\ intent' = [intent EXCEPT ![o] = "succeeded"]
  /\ UNCHANGED <<stock, orders, payments, req, orderLock, prodLock,
                 decCount>>
  /\ UNCHANGED <<checkout, shopvars>>

\* ---------------------------------------------------------------- admin
\* ProductAdmin: an operator edits Product.stock
AdminSetStock(p, v) ==
  /\ prodLock[p] = 0
  /\ v # stock[p]
  /\ ProductRowValid(v)
  /\ stock' = [stock EXCEPT ![p] = v]
  /\ UNCHANGED <<orders, payments, intent, req, orderLock,
                 prodLock, decCount>>
  /\ UNCHANGED <<checkout, shopvars>>

\* ProductAdmin, ProductViewSet: an operator edits a product, giving it
\* another price, name and SKU
EditedProductRows ==
  {[price |-> v, is_active |-> TRUE, name |-> v, sku |-> v] :
     v \in 1..MaxPrice}

AdminEditProduct(p, row) ==
  /\ prodLock[p] = 0
  /\ row # products[p]
  /\ products' = [products EXCEPT ![p] = row]
  /\ UNCHANGED <<stock, orders, payments, intent, req, orderLock, prodLock,
                 decCount, promotions, checkout, candidates, pricing, now>>

\* PromotionAdmin, PromotionViewSet: an operator edits a promotion: its
\* value, its scope, its window, or whether it is active
EditedPromotionRows ==
  {Promotion("GLOBAL", "PERCENT", 5000, {}, {}),
   [Promotion("PRODUCT", "AMOUNT", 1, {}, {1}) EXCEPT !.end_date = 2],
   [Promotion("PRODUCT", "AMOUNT", 1, {}, {1}) EXCEPT !.is_active = FALSE]}

AdminEditPromotion(i, row) ==
  /\ i \in DOMAIN promotions
  /\ row # promotions[i]
  /\ promotions' = [promotions EXCEPT ![i] = row]
  /\ UNCHANGED <<stock, orders, payments, intent, req, orderLock, prodLock,
                 decCount, products, checkout, candidates, pricing, now>>

\* OrderAdmin: an operator cancels an order that is not paid
AdminCancel(o) ==
  /\ orders[o].status \in {"PENDING_PAYMENT", "FAILED"}
  /\ orderLock[o] = 0
  /\ orders' = [orders EXCEPT ![o].status = "CANCELED"]
  /\ UNCHANGED <<stock, payments, intent, req, orderLock,
                 prodLock, decCount>>
  /\ UNCHANGED <<checkout, shopvars>>

\* ------------------------------------------------------- order methods
\* Order.mark_as_paid: the row it saves, from the in-memory order of r
mark_as_paidReprices(ord, r) ==
  [ord EXCEPT !.status = "PAID",
              !.fulfillment_status =
                 IF req[r].mfulfillment = "PENDING" THEN "PROCESSING"
                 ELSE req[r].mfulfillment,
              !.paid_at = r,
              !.total_amount =
                 SumUpTo([p \in Products |-> products[p].price * ord.items[p]],
                         NumProducts)]

mark_as_paid(ord, r) ==
  [ord EXCEPT !.status = "PAID",
              !.fulfillment_status =
                 IF req[r].mfulfillment = "PENDING" THEN "PROCESSING"
                 ELSE req[r].mfulfillment,
              !.paid_at = r]

\* Order.mark_as_failed
mark_as_failedKeepsStatus(ord) == ord
mark_as_failed(ord) == [ord EXCEPT !.status = "FAILED"]

\* a request ends
Finish(r, res) ==
  [req[r] EXCEPT !.pc = "done", !.result = res, !.worder = "none",
                 !.wpay = "none", !.wpayid = 0,
                 !.mfulfillment = "PENDING"]

\* the locks of r are released when its transaction ends
Release(lock, r) == [x \in DOMAIN lock |-> IF lock[x] = r THEN 0 ELSE lock[x]]

\* ------------------------------------------------------------ confirm
\* CheckoutConfirmSerializer.validate: the order is read, and the intent id
\* is the order's own when the order is PAID or the client sent none
validate(r, o, pi) ==
  /\ req[r].pc = "idle"
  /\ \A r2 \in Req : r2 < r => req[r2].pc # "idle"
  /\ orders[o].status # "NONE"
  /\ req' = [req EXCEPT ![r] =
       [@ EXCEPT !.kind = "confirm", !.pc = "retrieve", !.order = o,
                 !.intent = IF orders[o].status = "PAID" \/ pi = 0
                            THEN orders[o].stripe_payment_intent_id
                            ELSE pi]]
  /\ UNCHANGED <<stock, orders, payments, intent, orderLock, prodLock,
                 decCount>>
  /\ UNCHANGED <<checkout, shopvars>>

\* retrieve_payment_intent raises (provider unreachable, unknown intent)
retrieve_failsMarksFailed(r) ==
  /\ req[r].kind = "confirm" /\ req[r].pc = "retrieve"
  /\ orderLock[req[r].order] = 0
  /\ orders' = [orders EXCEPT ![req[r].order] = mark_as_failed(@)]
  /\ req' = [req EXCEPT ![r] = Finish(r, "provider_error")]
  /\ UNCHANGED <<stock, payments, intent, orderLock, prodLock, decCount>>
  /\ UNCHANGED <<checkout, shopvars>>

retrieve_fails(r) ==
  /\ req[r].kind = "confirm" /\ req[r].pc = "retrieve"
  /\ req' = [req EXCEPT ![r] = Finish(r, "provider_error")]
  /\ UNCHANGED <<stock, orders, payments, intent, orderLock, prodLock,
                 decCount>>
  /\ UNCHANGED <<checkout, shopvars>>

\* The order has an owner: push is the notification save() sends to
\* order.user. transaction.on_commit is called after the atomic block has
\* been left and outside any transaction, so the callback runs at once.
\*
\* save(): retrieve_payment_intent and the branch on its status.  A status
\* other than succeeded ends the request or sends it to mark_as_failed.  On
\* succeeded (a final status, so it still holds when the block is entered)
\* transaction.atomic() is entered and order.refresh_from_db() reads the
\* committed row; an order read as PAID leaves the block at once
retrieve_payment_intent(r, status) ==
  /\ req[r].kind = "confirm" /\ req[r].pc = "retrieve"
  /\ intent[req[r].intent] # "none"
  /\ status = "succeeded" <=> intent[req[r].intent] = "succeeded"
  /\ LET o == req[r].order IN
     req' = [req EXCEPT ![r] =
         IF status # "succeeded"
           THEN IF status \in StillProcessing
                  THEN [Finish(r, "retry") EXCEPT !.obs = status]
                  ELSE [@ EXCEPT !.obs = status, !.pc = "mark_failed"]
           ELSE IF orders[o].status # "PAID"
                  THEN [@ EXCEPT !.obs = status, !.pc = "mark_paid",
                          !.mfulfillment = orders[o].fulfillment_status]
                  ELSE [Finish(r, "ok") EXCEPT !.obs = status,
                                               !.push = "Pago confirmado"]]
  /\ UNCHANGED <<stock, orders, payments, intent, orderLock, prodLock,
                 decCount>>
  /\ UNCHANGED <<checkout, shopvars>>

\* save(): order.mark_as_failed() on the order read by validate
save_mark_failed(r) ==
  /\ req[r].kind = "confirm" /\ req[r].pc = "mark_failed"
  /\ orderLock[req[r].order] = 0
  /\ orders' = [orders EXCEPT ![req[r].order] = mark_as_failed(@)]
  /\ req' = [req EXCEPT ![r] =
       [Finish(r, "failed") EXCEPT !.push = "Pago rechazado"]]
  /\ UNCHANGED <<stock, payments, intent, orderLock, prodLock, decCount>>
  /\ UNCHANGED <<checkout, shopvars>>

\* save(): order.mark_as_paid() (an UPDATE, which takes the row lock) and
\* OrderPayment.objects.create, both inside the transaction
save_mark_paid(r) ==
  /\ req[r].kind = "confirm" /\ req[r].pc = "mark_paid"
  /\ orderLock[req[r].order] = 0
  /\ orderLock' = [orderLock EXCEPT ![req[r].order] = r]
  /\ req' = [req EXCEPT ![r] =
       [@ EXCEPT !.pc = "lock", !.worder = "paid", !.wpay = "insert"]]
  /\ UNCHANGED <<stock, orders, payments, intent, prodLock,
                 decCount>>
  /\ UNCHANGED <<checkout, shopvars>>

\* the products of the order whose row r has not locked yet.  The queryset
\* is ordered (Product.Meta.ordering), so every request locks the rows in the
\* same order; a product's number is its place in this order
ToLock(r) ==
  {p \in Products : orders[req[r].order].items[p] > 0 /\ prodLock[p] # r}

\* the row the SELECT ... ORDER BY ... FOR UPDATE locks next: the first of
\* the remaining rows in the order of the queryset
NextToLockByRequest(r) ==
  IF r % 2 = 1
    THEN CHOOSE x \in ToLock(r) : \A y \in ToLock(r) : x <= y
    ELSE CHOOSE x \in ToLock(r) : \A y \in ToLock(r) : x >= y

NextToLock(r) == CHOOSE x \in ToLock(r) : \A y \in ToLock(r) : x <= y

\* save(): Product.objects.select_for_update() locks the next product row,
\* when it is not the last one
save_lock(r) ==
  /\ req[r].kind = "confirm" /\ req[r].pc = "lock"
  /\ Cardinality(ToLock(r)) > 1
  /\ LET p == NextToLock(r) IN
       /\ prodLock[p] = 0
       /\ prodLock' = [prodLock EXCEPT ![p] = r]
  /\ UNCHANGED <<stock, orders, payments, intent, req,
                 orderLock, decCount>>
  /\ UNCHANGED <<checkout, shopvars>>

\* save(): the loop over the locked products, from product p on: the stock
\* check, then UPDATE stock = stock - quantity under the table constraint
RECURSIVE settle(_, _, _)
settle(p, stk, qty) ==
  IF p > NumProducts THEN [result |-> "ok", stock |-> stk]
  ELSE IF qty[p] = 0 THEN settle(p + 1, stk, qty)
  ELSE IF stk[p] < qty[p] THEN [result |-> "stock_error", stock |-> stk]
  ELSE IF ~ProductRowValid(stk[p] - qty[p])
         THEN [result |-> "integrity_error",
               stock |-> [stk EXCEPT ![p] = @ - qty[p]]]
  ELSE settle(p + 1, [stk EXCEPT ![p] = @ - qty[p]], qty)

\* save(): the last product row is locked, the loop runs, and the
\* transaction commits or rolls back
save_settle(r) ==
  /\ req[r].kind = "confirm" /\ req[r].pc = "lock"
  /\ Cardinality(ToLock(r)) <= 1
  /\ \A p \in ToLock(r) : prodLock[p] = 0
  /\ LET o == req[r].order
         out == settle(1, stock, orders[o].items)
         ok == out.result = "ok"
         row == [id |-> r, order |-> o, intent |-> req[r].intent,
                 status |-> req[r].obs]
     IN /\ stock' = atomic(stock, out.stock, ok)
        /\ orders' = atomic(orders,
                       [orders EXCEPT ![o] = mark_as_paid(@, r)], ok)
        /\ payments' = atomic(payments, payments \cup {row}, ok)
        /\ decCount' = [decCount EXCEPT ![o] =
             IF stock' # stock THEN @ + 1 ELSE @]
        /\ req' = [req EXCEPT ![r] =
             [Finish(r, out.result) EXCEPT
                !.push = IF ok THEN "Pago confirmado" ELSE "none"]]
  /\ orderLock' = Release(orderLock, r)
  /\ prodLock' = Release(prodLock, r)
  /\ UNCHANGED intent
  /\ UNCHANGED <<checkout, shopvars>>

\* ------------------------------------------------------------ webhook
\* the OrderPayment rows of an order and an intent
PaymentRows(o, i) == {row \in payments : row.order = o /\ row.intent = i}

\* stripe.Webhook.construct_event: the signature header is verified against
\* the payload and the payload is parsed
construct_eventUnverified(sig_header, payload) == payload = "event"
construct_event(sig_header, payload) ==
  sig_header = "valid" /\ payload = "event"

\* stripe_webhook, up to the call of handle_stripe_event: a request with
\* this Stripe-Signature header ("missing": none) and this body arrives; it
\* is answered at once with an error or handed on to handle_stripe_event
stripe_webhook(r, secret, sig_header, payload) ==
  /\ req[r].pc = "idle" /\ req[r].kind = "none"
  /\ \A r2 \in Req : r2 < r => req[r2].pc # "idle"
  /\ req' = [req EXCEPT ![r] =
       IF secret = "" THEN
         [Finish(r, "not_configured") EXCEPT
            !.kind = "webhook", !.sig_header = sig_header,
            !.payload = payload]
       ELSE IF sig_header = "missing" \/ ~construct_event(sig_header, payload)
         THEN [Finish(r, "rejected") EXCEPT
                 !.kind = "webhook", !.sig_header = sig_header,
                 !.payload = payload]
       ELSE [@ EXCEPT !.kind = "webhook", !.sig_header = sig_header,
                      !.payload = payload]]
  /\ UNCHANGED <<stock, orders, payments, intent, orderLock, prodLock,
                 decCount>>
  /\ UNCHANGED <<checkout, shopvars>>

\* handle_stripe_event: a payment_intent.succeeded or payment_failed event
\* of intent i arrives (events may come late and more than once); the order
\* with this intent is found, _record_payment enters transaction.atomic()
\* and order.refresh_from_db() reads the committed row
handle_stripe_event(r, status, i) ==
  /\ req[r].pc = "idle"
  /\ \A r2 \in Req : r2 < r => req[r2].pc # "idle"
  /\ intent[i] # "none"
  /\ status = "succeeded" => intent[i] = "succeeded"
  /\ orders[i].status # "NONE"
  /\ req' = [req EXCEPT ![r] =
       [@ EXCEPT !.kind = "webhook", !.order = i, !.intent = i,
                 !.obs = status,
                 !.mfulfillment = orders[i].fulfillment_status,
                 !.pc = IF status = "succeeded" /\ orders[i].status = "PAID"
                        THEN "upsert" ELSE "mark"]]
  /\ UNCHANGED <<stock, orders, payments, intent, orderLock, prodLock,
                 decCount>>
  /\ UNCHANGED <<checkout, shopvars>>

\* _record_payment: order.mark_as_paid() or order.mark_as_failed(), an
\* UPDATE that takes the row lock
record_mark(r) ==
  /\ req[r].kind = "webhook" /\ req[r].pc = "mark"
  /\ orderLock[req[r].order] = 0
  /\ orderLock' = [orderLock EXCEPT ![req[r].order] = r]
  /\ req' = [req EXCEPT ![r] =
       [@ EXCEPT !.pc = "upsert",
                 !.worder = IF req[r].obs = "succeeded" THEN "paid"
                            ELSE "failed"]]
  /\ UNCHANGED <<stock, orders, payments, intent, prodLock, decCount>>
  /\ UNCHANGED <<checkout, shopvars>>

\* _record_payment: OrderPayment.objects.update_or_create looks the row up;
\* more than one row raises MultipleObjectsReturned and the block rolls back
record_upsert(r) ==
  /\ req[r].kind = "webhook" /\ req[r].pc = "upsert"
  /\ LET rows == PaymentRows(req[r].order, req[r].intent) IN
       IF Cardinality(rows) > 1
         THEN /\ req' = [req EXCEPT ![r] = Finish(r, "error")]
              /\ orderLock' = Release(orderLock, r)
         ELSE /\ req' = [req EXCEPT ![r] =
                   IF rows = {}
                     THEN [@ EXCEPT !.pc = "commit", !.wpay = "insert"]
                     ELSE [@ EXCEPT !.pc = "commit", !.wpay = "update",
                             !.wpayid = (CHOOSE row \in rows : TRUE).id]]
              /\ UNCHANGED orderLock
  /\ UNCHANGED <<stock, orders, payments, intent, prodLock, decCount>>
  /\ UNCHANGED <<checkout, shopvars>>

\* _record_payment: the block ends and the transaction commits
record_commit(r) ==
  /\ req[r].kind = "webhook" /\ req[r].pc = "commit"
  /\ LET o == req[r].order
         row == [id |-> r, order |-> o, intent |-> req[r].intent,
                 status |-> req[r].obs]
     IN /\ orders' = [orders EXCEPT ![o] =
             IF req[r].worder = "paid" THEN mark_as_paid(@, r)
             ELSE IF req[r].worder = "failed" THEN mark_as_failed(@)
             ELSE @]
        /\ payments' =
             IF req[r].wpay = "insert" THEN payments \cup {row}
             ELSE {IF x.id = req[r].wpayid
                     THEN [x EXCEPT !.status = req[r].obs] ELSE x
                   : x \in payments}
  /\ req' = [req EXCEPT ![r] = Finish(r, "ok")]
  /\ orderLock' = Release(orderLock, r)
  /\ UNCHANGED <<stock, intent, prodLock, decCount>>
  /\ UNCHANGED <<checkout, shopvars>>

\* ------------------------------------------------------- specifications
\* the confirm calls
ConfirmCalls ==
  \/ \E r \in Req, o \in Orders : \E pi \in {0, o} : validate(r, o, pi)
  \/ \E r \in Req, s \in IntentStatuses : retrieve_payment_intent(r, s)
  \/ \E r \in Req : save_mark_failed(r)
  \/ \E r \in Req : save_mark_paid(r)
  \/ \E r \in Req : save_lock(r)
  \/ \E r \in Req : save_settle(r)

\* the webhook deliveries
WebhookDeliveries ==
  \/ \E r \in Req, s \in {"succeeded", "failed"}, i \in Orders :
       handle_stripe_event(r, s, i)
  \/ \E r \in Req : record_mark(r)
  \/ \E r \in Req : record_upsert(r)
  \/ \E r \in Req : record_commit(r)

\* the shop around them: the provider and the operator of the catalog
Environment ==
  \/ \E o \in Orders : ProviderSucceeds(o)
  \/ \E p \in Products, v \in -1..MaxStock : AdminSetStock(p, v)

\* Spec: at most MaxCheckouts checkouts; confirm calls and webhook
\* deliveries in any interleaving
Next ==
  \/ \E o \in 1..MaxCheckouts, cart \in Carts : create(o, cart, TRUE)
  \/ ConfirmCalls
  \/ WebhookDeliveries
  \/ Environment

Spec == Init /\ [][Next]_vars

\* SpecMulti: every order slot may be used, by carts with one line for
\* each of their products, in the order of the products; confirm calls in
\* any interleaving
AggregatedCarts ==
  {cart \in Carts :
     \A i \in 1..Len(cart) :
       /\ cart[i].product_id \in Products
       /\ \A j \in 1..(i - 1) : cart[j].product_id < cart[i].product_id}

NextMulti ==
  \/ \E o \in Orders, cart \in AggregatedCarts : create(o, cart, TRUE)
  \/ ConfirmCalls
  \/ Environment

SpecMulti == Init /\ [][NextMulti]_vars

\* SpecSeq: confirm calls only, each one run to its end before the next
InFlight(r) == req[r].pc \notin {"idle", "done"}

\* no request other than r is in progress
Alone(r) == \A r2 \in Req \ {r} : ~InFlight(r2)

NextSeq ==
  \/ \E o \in 1..MaxCheckouts, cart \in Carts : create(o, cart, TRUE)
  \/ \E r \in Req, o \in Orders : \E pi \in {0, o} :
       Alone(r) /\ validate(r, o, pi)
  \/ \E r \in Req : Alone(r) /\ retrieve_fails(r)
  \/ \E r \in Req, s \in IntentStatuses :
       Alone(r) /\ retrieve_payment_intent(r, s)
  \/ \E r \in Req : Alone(r) /\ save_mark_failed(r)
  \/ \E r \in Req : Alone(r) /\ save_mark_paid(r)
  \/ \E r \in Req : Alone(r) /\ save_lock(r)
  \/ \E r \in Req : Alone(r) /\ save_settle(r)
  \/ \E o \in Orders : ProviderSucceeds(o)
  \/ \E p \in Products, v \in -1..MaxStock : AdminSetStock(p, v)
  \/ \E o \in Orders : AdminCancel(o)

SpecSeq == Init /\ [][NextSeq]_vars

\* SpecIntent: every order slot may be used; confirm calls one at a time,
\* with any intent id the client may send: none, the order's own or the one
\* of another order
NextIntent ==
  \/ \E o \in Orders, cart \in Carts : create(o, cart, TRUE)
  \/ \E r \in Req, o \in Orders, pi \in 0..NumOrders :
       Alone(r) /\ validate(r, o, pi)
  \/ \E r \in Req : Alone(r) /\ retrieve_fails(r)
  \/ \E r \in Req, s \in IntentStatuses :
       Alone(r) /\ retrieve_payment_intent(r, s)
  \/ \E r \in Req : Alone(r) /\ save_mark_failed(r)
  \/ \E r \in Req : Alone(r) /\ save_mark_paid(r)
  \/ \E r \in Req : Alone(r) /\ save_lock(r)
  \/ \E r \in Req : Alone(r) /\ save_settle(r)
  \/ \E o \in Orders : ProviderSucceeds(o)

SpecIntent == Init /\ [][NextIntent]_vars

\* SpecLocks: two orders, each of one unit of one or both products, and
\* confirm calls in any interleaving.  A request that has been received runs
\* on: a worker executes its next statement as soon as the row lock it waits
\* for is free, and the database grants a released lock to a waiter
LockCarts ==
  {cart \in Carts :
     \A i \in 1..Len(cart) :
       cart[i].quantity = 1 /\ cart[i].product_id \in Products}

NextLocks ==
  \/ \E o \in Orders, cart \in LockCarts : create(o, cart, TRUE)
  \/ ConfirmCalls
  \/ \E o \in Orders : ProviderSucceeds(o)

FairLocks ==
  \A r \in Req :
    /\ WF_vars(\E s \in IntentStatuses : retrieve_payment_intent(r, s))
    /\ WF_vars(save_mark_failed(r))
    /\ WF_vars(save_mark_paid(r))
    /\ WF_vars(save_lock(r))
    /\ WF_vars(save_settle(r))

SpecLocks == Init /\ [][NextLocks]_vars /\ FairLocks

\* SpecEngine: a catalog of promotions of any scope, state and window; time
\* passes, and engines are built for any set of products and asked for any
\* product
InitEngine ==
  /\ InitDb
  /\ InitSelector
  /\ products = [p \in Products |->
                   [price |-> MaxPrice, is_active |-> TRUE, name |-> 1,
                    sku |-> 1]]
  /\ promotions \in UNION {[1..n -> EngineRows] : n \in 0..MaxEnginePromotions}

NextEngine ==
  \/ \E product_list \in SUBSET Products, p \in Products :
       pricing = NoPricing /\ engine_get(product_list, p)
  \/ Tick

SpecEngine == InitEngine /\ [][NextEngine]_vars

\* SpecQuote: one checkout request on a catalog whose prices include
\* amounts a percentage does not divide evenly and the price 100.00, with at
\* most one promotion, which may be one of 10 %
SamplePrices == {1, 5, 10000}

SampleRows == PromotionRows \cup {Promotion("GLOBAL", "PERCENT", 1000, {}, {})}

InitQuote ==
  /\ InitDb
  /\ InitSelector
  /\ products \in [Products -> {row \in [price : SamplePrices,
                                          is_active : {TRUE}, name : {1},
                                          sku : {1}] : TRUE}]
  /\ promotions \in UNION {[1..n -> SampleRows] : n \in 0..MaxPromotions}

NextQuote ==
  \/ \E o \in 1..MaxCheckouts, cart \in Carts : start_invalid(o, cart)
  \/ \E o \in 1..MaxCheckouts, cart \in Carts, pi_ok \in BOOLEAN :
       create(o, cart, pi_ok)

SpecQuote == InitQuote /\ [][NextQuote]_vars

\* SpecFrozen: a catalog at the highest price with one promotion; one
\* checkout of one unit of product 1, alone or with one unit of product 2;
\* the operator edits products and promotions, time passes, and confirm
\* calls and webhook deliveries run one at a time
FrozenCarts ==
  {cart \in LockCarts :
     \A i \in 1..Len(cart) : cart[i].product_id = i}

InitFrozen ==
  /\ InitDb
  /\ InitSelector
  /\ products = [p \in Products |->
                   [price |-> MaxPrice, is_active |-> TRUE,
                    name |-> MaxPrice, sku |-> MaxPrice]]
  /\ promotions \in [1..1 -> EditedPromotionRows]

NextFrozen ==
  \/ \E o \in 1..MaxCheckouts, cart \in FrozenCarts : create(o, cart, TRUE)
  \/ \E p \in Products, row \in EditedProductRows : AdminEditProduct(p, row)
  \/ \E i \in 1..1, row \in EditedPromotionRows : AdminEditPromotion(i, row)
  \/ Tick
  \/ \E r \in Req, o \in Orders : Alone(r) /\ validate(r, o, 0)
  \/ \E r \in Req, s \in IntentStatuses :
       Alone(r) /\ retrieve_payment_intent(r, s)
  \/ \E r \in Req : Alone(r) /\ save_mark_failed(r)
  \/ \E r \in Req : Alone(r) /\ save_mark_paid(r)
  \/ \E r \in Req : Alone(r) /\ save_lock(r)
  \/ \E r \in Req : Alone(r) /\ save_settle(r)
  \/ \E r \in Req, s \in {"succeeded", "failed"}, i \in Orders :
       Alone(r) /\ handle_stripe_event(r, s, i)
  \/ \E r \in Req : Alone(r) /\ record_mark(r)
  \/ \E r \in Req : Alone(r) /\ record_upsert(r)
  \/ \E r \in Req : Alone(r) /\ record_commit(r)
  \/ \E o \in Orders : ProviderSucceeds(o)

SpecFrozen == InitFrozen /\ [][NextFrozen]_vars

\* SpecWebhook: requests of any signature and body arrive at the webhook
\* endpoint; those that pass construct_event are handled
NextWebhook ==
  \/ \E o \in 1..MaxCheckouts, cart \in Carts : create(o, cart, TRUE)
  \/ \E r \in Req, secret \in {"", "whsec"},
        sig_header \in {"missing", "invalid", "valid"},
        payload \in {"unparseable", "event"} :
       stripe_webhook(r, secret, sig_header, payload)
  \/ \E r \in Req, s \in {"succeeded", "failed"}, i \in Orders :
       req[r].kind = "webhook" /\ handle_stripe_event(r, s, i)
  \/ \E r \in Req : record_mark(r)
  \/ \E r \in Req : record_upsert(r)
  \/ \E r \in Req : record_commit(r)
  \/ \E o \in Orders : ProviderSucceeds(o)

SpecWebhook == Init /\ [][NextWebhook]_vars

\* SpecCheckout: the catalog is any catalog within the bounds; checkout
\* requests of every outcome, then confirm calls and webhook deliveries one
\* at a time
InitCheckout ==
  /\ InitDb
  /\ InitSelector
  /\ products \in [Products -> ProductRows]
  /\ promotions \in UNION {[1..n -> PromotionRows] : n \in 0..MaxPromotions}

NextCheckout ==
  \/ \E o \in 1..MaxCheckouts, cart \in Carts : start_invalid(o, cart)
  \/ \E o \in 1..MaxCheckouts, cart \in Carts, pi_ok \in BOOLEAN :
       create(o, cart, pi_ok)
  \/ \E r \in Req, o \in Orders : Alone(r) /\ validate(r, o, 0)
  \/ \E r \in Req, s \in IntentStatuses :
       Alone(r) /\ retrieve_payment_intent(r, s)
  \/ \E r \in Req : Alone(r) /\ save_mark_failed(r)
  \/ \E r \in Req : Alone(r) /\ save_mark_paid(r)
  \/ \E r \in Req : Alone(r) /\ save_lock(r)
  \/ \E r \in Req : Alone(r) /\ save_settle(r)
  \/ \E r \in Req, s \in {"succeeded", "failed"}, i \in Orders :
       Alone(r) /\ handle_stripe_event(r, s, i)
  \/ \E r \in Req : Alone(r) /\ record_mark(r)
  \/ \E r \in Req : Alone(r) /\ record_upsert(r)
  \/ \E r \in Req : Alone(r) /\ record_commit(r)
  \/ \E o \in Orders : ProviderSucceeds(o)

SpecCheckout == InitCheckout /\ [][NextCheckout]_vars

\* SpecPricing: the selector is called once, on a product at any price
\* and with any sequence of candidates within the bounds
InitPricing ==
  /\ InitDb
  /\ \E v \in 1..MaxPrice :
       products = [p \in Products |->
                     [price |-> IF p = 1 THEN v ELSE 1, is_active |-> TRUE,
                      name |-> 1, sku |-> 1]]
  /\ promotions = <<>>
  /\ candidates \in UNION {[1..n -> CandidateRows] : n \in 0..MaxCandidates}
  /\ pricing = NoPricing

NextPricing == select(1)

SpecPricing == InitPricing /\ [][NextPricing]_vars

\* ---------------------------------------------------------------- claims
ConfirmDone(r) == req[r].kind = "confirm" /\ req[r].pc = "done"

\* the step is the end of the transaction of confirm call r
Settles(r) ==
  req[r].kind = "confirm" /\ req[r].pc = "lock" /\ req'[r].pc = "done"

\* the order holds one unit of product p and nothing else
OneUnitOf(o, p) ==
  \A q \in Products : orders[o].items[q] = (IF q = p THEN 1 ELSE 0)

\* C1: for an order whose intent is succeeded, confirm calls made one after
\* the other (the stock gate not refusing them for stock below the
\* quantity) leave the order PAID, its stock decremented exactly once
\* and exactly one OrderPayment row for the order and the intent.
C1_ConfirmTwiceSameAsOnce ==
  \A r \in Req :
    (ConfirmDone(r) /\ req[r].obs = "succeeded"
       /\ req[r].result # "stock_error")
    => LET o == req[r].order IN
         /\ orders[o].status = "PAID"
         /\ decCount[o] = 1
         /\ Cardinality(PaymentRows(o, req[r].intent)) = 1

\* C2: whatever the interleaving of the confirmations of an order, the
\* quantities of its items are subtracted from stock at most once.
C2_DecrementAtMostOnce == \A o \in Orders : decCount[o] <= 1

\* C3: an order that is PAID, whichever trigger settled it, has had the
\* quantities of its items subtracted from stock exactly once.
C3_PaidDecrementedOnce ==
  \A o \in Orders : orders[o].status = "PAID" => decCount[o] = 1

\* C4: in every reachable state the stock of every product is a
\* non-negative integer.
C4_StockNonNegative == \A p \in Products : stock[p] \in Nat

C4_Witness ==
  /\ \E o \in Orders : decCount[o] >= 1
  /\ \E r \in Req : ConfirmDone(r)
        /\ req[r].result \in {"stock_error", "integrity_error"}
  /\ \E p \in Products : stock[p] = 1

\* C5: of two concurrent confirmations of two orders that each hold one
\* unit of a product with stock 1, the first to pass the stock gate commits
\* (its order PAID, the stock 0) and the other, finding stock 0, fails with
\* the insufficient-stock error, its order not PAID and the stock still 0.
C5_LastUnitStep ==
  \A r \in Req, r2 \in Req, p \in Products :
    (/\ Settles(r)
     /\ req[r2].kind = "confirm" /\ req[r2].order # req[r].order
     /\ InFlight(r2) \/ req[r2].pc = "done"
     /\ OneUnitOf(req[r].order, p) /\ OneUnitOf(req[r2].order, p))
    => /\ stock[p] = 1 =>
            /\ req'[r].result = "ok"
            /\ orders'[req[r].order].status = "PAID"
            /\ stock'[p] = 0
       /\ stock[p] = 0 =>
            /\ req'[r].result = "stock_error"
            /\ orders'[req[r].order].status # "PAID"
            /\ stock'[p] = 0

C5_LastUnit == [][C5_LastUnitStep]_vars

\* C6: a confirm that finds a product of the order with stock below the
\* item quantity fails as a unit: it leaves the stored orders (status,
\* paid_at, fulfillment status), the stock of every product and the payment
\* rows as they were, so it does not make the order PAID.
C6_StockFailureStep ==
  \A r \in Req :
    (Settles(r) /\ req'[r].result = "stock_error")
    => UNCHANGED <<stock, orders, payments>>

C6_StockFailureRollsBack == [][C6_StockFailureStep]_vars

C6_Witness ==
  \E r \in Req :
    /\ ConfirmDone(r) /\ req[r].result = "stock_error"
    /\ LET o == req[r].order IN
         /\ orders[o].status # "PAID" /\ orders[o].paid_at = 0
         /\ orders[o].fulfillment_status = "PENDING"
         /\ orders[o].items[1] > 0 /\ stock[1] >= orders[o].items[1]
         /\ orders[o].items[2] > stock[2]
         /\ decCount[o] = 0

\* C7: after a confirm that failed at the stock gate although the provider
\* reports succeeded, an OrderPayment row of the order and the intent with
\* status succeeded is stored, and the order is not PAID.
C7_PaymentRowKept ==
  \A r \in Req :
    (ConfirmDone(r) /\ req[r].result = "stock_error")
    => /\ \E row \in PaymentRows(req[r].order, req[r].intent) :
            row.status = "succeeded"
       /\ orders[req[r].order].status # "PAID"

\* C8 as stated: with a re-fetched status "processing" or "requires_action"
\* no step of the confirm call changes an order, a stock or a payment row,
\* and the call ends as a failure to be retried.
C8_OriginalStep ==
  \A r \in Req :
    (/\ req'[r] # req[r] /\ req'[r].kind = "confirm"
     /\ req'[r].obs \in {"processing", "requires_action"})
    => /\ UNCHANGED <<stock, orders, payments>>
       /\ req'[r].pc = "done" /\ req'[r].result = "retry"

C8_Original == [][C8_OriginalStep]_vars

\* C8 amended: with a re-fetched status "processing" or
\* "requires_confirmation" no step of the confirm call changes an order, a
\* stock or a payment row, and the call ends as a failure to be retried.
C8_StillProcessingStep ==
  \A r \in Req :
    (/\ req'[r] # req[r] /\ req'[r].kind = "confirm"
     /\ req'[r].obs \in {"processing", "requires_confirmation"})
    => /\ UNCHANGED <<stock, orders, payments>>
       /\ req'[r].pc = "done" /\ req'[r].result = "retry"

C8_StillProcessingNoMutation == [][C8_StillProcessingStep]_vars

C8_Witness ==
  \E r \in Req :
    /\ ConfirmDone(r) /\ req[r].result = "retry"
    /\ req[r].obs \in {"processing", "requires_confirmation"}
    /\ orders[req[r].order].status = "PENDING_PAYMENT"
    /\ payments = {}

\* C9: an order whose stored status is PAID keeps this status, and its
\* paid_at, through every later step of a confirm call or a webhook.
C9_PaidStep ==
  \A o \in Orders :
    orders[o].status = "PAID"
    => /\ orders'[o].status = "PAID"
       /\ orders'[o].paid_at = orders[o].paid_at

C9_PaidIsFinal == [][C9_PaidStep]_vars

\* C10: no step of a confirm call or of a webhook changes the status of an
\* order that is FAILED or CANCELED.
C10_ClosedStep ==
  req' # req =>
    \A o \in Orders :
      orders[o].status \in {"FAILED", "CANCELED"}
      => orders'[o].status = orders[o].status

C10_OnlyFromPending == [][C10_ClosedStep]_vars

\* C11: a confirm call whose re-fetched status is neither succeeded nor one
\* of the still-working statuses changes no stock and no payment row, never
\* writes PAID, and ends as a failure with the order FAILED.
C11_RejectedStep ==
  \A r \in Req :
    (/\ req'[r] # req[r] /\ req'[r].kind = "confirm"
     /\ req'[r].obs \in IntentStatuses \ (StillProcessing \cup {"succeeded"}))
    => /\ UNCHANGED <<stock, payments>>
       /\ \/ req'[r].pc = "mark_failed" /\ UNCHANGED orders
          \/ /\ req'[r].pc = "done" /\ req'[r].result = "failed"
             /\ orders'[req[r].order].status = "FAILED"
             /\ \A o \in Orders \ {req[r].order} : orders'[o] = orders[o]

C12_OnePaymentRow ==
  \A o \in Orders, i \in Orders : Cardinality(PaymentRows(o, i)) <= 1

\* a checkout request has just been answered
Answered == checkout' # checkout

\* C13: a checkout whose payment intent cannot be created fails and leaves
\* no order, no item and no intent behind; and every stored order carries
\* the id of its payment intent.
C13_IntentStep ==
  (Answered /\ checkout'.result = "intent_error")
  => /\ checkout'.order = 0
     /\ UNCHANGED <<orders, intent, payments, stock>>

C13_EveryOrderHasIntent ==
  \A o \in Orders :
    orders[o].status # "NONE" =>
      /\ orders[o].stripe_payment_intent_id # 0
      /\ intent[orders[o].stripe_payment_intent_id] # "none"

C13_NoOrderWithoutIntent ==
  []C13_EveryOrderHasIntent /\ [][C13_IntentStep]_vars

C13_Witness ==
  /\ checkout.result = "intent_error" /\ checkout.cart # <<>>
  /\ \A o \in Orders : orders[o] = NoOrder /\ intent[o] = "none"

\* the cart names a product id that is missing or inactive
NamesUnavailable(cart) ==
  \E i \in 1..Len(cart) :
    \/ cart[i].product_id \notin Products
    \/ ~products[cart[i].product_id].is_active

\* the amount to pay for the cart, line by line, at the selector's prices
RECURSIVE ComputedTotal(_)
ComputedTotal(cart) ==
  IF cart = <<>> THEN 0
  ELSE LET p == Head(cart).product_id IN
         (products[p].price
            - build_promotion_pricing_map({p}, now)[p].discount_per_unit)
           * Head(cart).quantity
         + ComputedTotal(Tail(cart))

\* C14: a checkout whose cart is empty, or names a missing or inactive
\* product, or whose computed total is not positive, fails and creates no
\* order, no item and no payment intent.
C14_InvalidStep ==
  (/\ Answered
   /\ \/ checkout'.cart = <<>>
      \/ NamesUnavailable(checkout'.cart)
      \/ ComputedTotal(checkout'.cart) <= 0)
  => /\ checkout'.result \in
          {"empty_cart", "unavailable", "insufficient_stock", "total_error"}
     /\ checkout'.order = 0
     /\ UNCHANGED <<orders, intent, payments, stock>>

C14_AllOrNothing == [][C14_InvalidStep]_vars

C14_Witness ==
  /\ checkout.result = "total_error"
  /\ Len(checkout.cart) = 2
  /\ checkout.cart[1].product_id # checkout.cart[2].product_id
  /\ \A o \in Orders : orders[o] = NoOrder /\ intent[o] = "none"

\* the sum of the quantities of the cart's lines that name product p
LineSum(cart, p) ==
  LET RECURSIVE upto(_)
      upto(n) ==
        IF n = 0 THEN 0
        ELSE upto(n - 1)
             + (IF cart[n].product_id = p THEN cart[n].quantity ELSE 0)
  IN upto(Len(cart))

\* C15: for a cart of active products, the checkout passes the stock check
\* when for every product the sum of its lines is at most the stock, and
\* fails with the insufficient-stock error when for some product the sum is
\* the stock plus one or more.
C15_StockStep ==
  (/\ Answered
   /\ checkout'.cart # <<>> /\ ~NamesUnavailable(checkout'.cart))
  => IF \E p \in Products : LineSum(checkout'.cart, p) >= stock[p] + 1
       THEN checkout'.result = "insufficient_stock"
       ELSE checkout'.result \in {"created", "intent_error", "total_error"}

C15_StockPreCheck == [][C15_StockStep]_vars

C15_Witness ==
  /\ checkout.result = "insufficient_stock"
  /\ Len(checkout.cart) = 2
  /\ checkout.cart[1].product_id = checkout.cart[2].product_id
  /\ \A i \in 1..2 :
       checkout.cart[i].quantity <= stock[checkout.cart[i].product_id]
  /\ checkout.cart[1].quantity + checkout.cart[2].quantity
       = stock[checkout.cart[1].product_id] + 1

\* the amounts of an order
Amounts(ord) ==
  <<ord.subtotal_amount, ord.discount_amount, ord.tax_amount,
    ord.shipping_amount, ord.total_amount>>

\* C16: every stored order has total = subtotal - discount + tax + shipping
\* with subtotal, discount, tax and shipping not negative and the total
\* above zero; no step of a confirm call or of a webhook changes them.
C16_AmountsInv ==
  \A o \in Orders :
    orders[o].status # "NONE" =>
      /\ orders[o].total_amount =
           orders[o].subtotal_amount - orders[o].discount_amount
             + orders[o].tax_amount + orders[o].shipping_amount
      /\ orders[o].subtotal_amount >= 0 /\ orders[o].discount_amount >= 0
      /\ orders[o].tax_amount >= 0 /\ orders[o].shipping_amount >= 0
      /\ orders[o].total_amount > 0

C16_AmountsStep ==
  req' # req =>
    \A o \in Orders : Amounts(orders'[o]) = Amounts(orders[o])

C16_Amounts == []C16_AmountsInv /\ [][C16_AmountsStep]_vars

C16_Witness ==
  \E o \in Orders :
    /\ orders[o].status = "PAID" /\ orders[o].discount_amount > 0
    /\ orders[o].total_amount = 1
    /\ \E r \in Req : ConfirmDone(r) /\ req[r].result = "ok"
    /\ \E r \in Req : req[r].kind = "webhook" /\ req[r].pc = "done"

\* the sum of total_price over a set of OrderItem rows
RECURSIVE SumTotalPrice(_)
SumTotalPrice(rows) ==
  IF rows = {} THEN 0
  ELSE LET row == CHOOSE x \in rows : TRUE
       IN row.total_price + SumTotalPrice(rows \ {row})

\* C17: the total_price of the items of a stored order add up to its
\* subtotal minus its discount, every item has a quantity of at least 1 and
\* total_price = unit_price * quantity, and the order just created has
\* exactly one item for each product id of its cart.
C17_ItemsMatchOrder ==
  /\ \A o \in Orders :
       orders[o].status # "NONE" =>
         /\ SumTotalPrice(orders[o].order_items) =
              orders[o].subtotal_amount - orders[o].discount_amount
         /\ \A it \in orders[o].order_items :
              it.quantity >= 1 /\ it.total_price = it.unit_price * it.quantity
  /\ checkout.result = "created" =>
       LET ids == {checkout.cart[i].product_id : i \in 1..Len(checkout.cart)}
           rows == orders[checkout.order].order_items
       IN /\ {it.product : it \in rows} = ids
          /\ Cardinality(rows) = Cardinality(ids)

C17_Witness ==
  /\ checkout.result = "created"
  /\ Len(checkout.cart) = 2
  /\ checkout.cart[1].product_id = checkout.cart[2].product_id
  /\ checkout.cart[1].quantity # checkout.cart[2].quantity
  /\ orders[checkout.order].discount_amount > 0
  /\ \E it \in orders[checkout.order].order_items : it.quantity = 3

\* the selector was called on a product; its unit price and its result
Selected == pricing.product # 0
UnitPrice == products[pricing.product].price

\* the discount a candidate stands for before any clamping, in 1/Scale cent
StatedDiscount(unit_price, promotion) ==
  IF promotion.discount_type = "PERCENT"
    THEN unit_price * promotion.discount_value
    ELSE promotion.discount_value * Scale

\* C18: a pricing the selector returns has 0 < discount_per_unit <= unit
\* price and final_price = unit price - discount_per_unit >= 0; a candidate
\* whose stated discount is the unit price or more counts as the unit price.
C18_DiscountWithinPrice ==
  Selected =>
    /\ pricing.best # None =>
         /\ 0 < pricing.best.discount_per_unit
         /\ pricing.best.discount_per_unit <= UnitPrice
         /\ pricing.best.final_price =
              UnitPrice - pricing.best.discount_per_unit
         /\ pricing.best.final_price >= 0
    /\ \A i \in 1..Len(candidates) :
         StatedDiscount(UnitPrice, candidates[i]) >= UnitPrice * Scale
         => /\ _calculate_discount(UnitPrice, candidates[i]) = UnitPrice
            /\ pricing.best.discount_per_unit = UnitPrice
            /\ pricing.best.final_price = 0

C18_Witness ==
  /\ Selected /\ pricing.best # None
  /\ pricing.best.promotion.discount_type = "AMOUNT"
  /\ pricing.best.promotion.discount_value > UnitPrice
  /\ pricing.best.discount_per_unit = UnitPrice
  /\ \E i \in 1..Len(candidates) :
       /\ candidates[i].discount_type = "PERCENT"
       /\ candidates[i].discount_value = 10000

\* the discounts per unit of the candidates
Discounts ==
  {_calculate_discount(UnitPrice, candidates[i]) : i \in 1..Len(candidates)}

\* C19: the selector returns None exactly when no candidate has a discount
\* above zero; otherwise it returns a candidate, and its discount per unit
\* is the largest of all candidates, whatever their scopes.
C19_LargestDiscount ==
  Selected =>
    /\ pricing.best = None <=> \A d \in Discounts : d <= 0
    /\ pricing.best # None =>
         /\ \E i \in 1..Len(candidates) :
              /\ candidates[i] = pricing.best.promotion
              /\ _calculate_discount(UnitPrice, candidates[i])
                   = pricing.best.discount_per_unit
         /\ \A d \in Discounts : d <= pricing.best.discount_per_unit

C19_Witness ==
  /\ Selected /\ pricing.best # None
  /\ pricing.best.promotion.scope = "GLOBAL"
  /\ \E i \in 1..Len(candidates) :
       /\ candidates[i].scope = "PRODUCT"
       /\ _calculate_discount(UnitPrice, candidates[i]) > 0
       /\ _calculate_discount(UnitPrice, candidates[i])
            < pricing.best.discount_per_unit

\* scope a is more specific than scope b
MoreSpecific(a, b) ==
  \/ a = "PRODUCT" /\ b \in {"CATEGORY", "GLOBAL"}
  \/ a = "CATEGORY" /\ b = "GLOBAL"

\* C20: among the candidates with the largest discount per unit the
\* selector returns one of the most specific scope, in whatever order the
\* candidates come.
C20_TieBySpecificity ==
  (Selected /\ pricing.best # None) =>
    \A i \in 1..Len(candidates) :
      _calculate_discount(UnitPrice, candidates[i])
        = pricing.best.discount_per_unit
      => ~MoreSpecific(candidates[i].scope, pricing.best.promotion.scope)

C20_Witness ==
  /\ Selected /\ Len(candidates) = 3
  /\ pricing.best.promotion.scope = "PRODUCT"
  /\ {candidates[i].scope : i \in 1..3} = Scopes
  /\ candidates[2].scope = "PRODUCT"
  /\ \A i \in 1..3 :
       _calculate_discount(UnitPrice, candidates[i])
         = pricing.best.discount_per_unit

\* the success notifications sent for an order
SuccessPushes(o) ==
  {r \in Req : req[r].order = o /\ req[r].push = "Pago confirmado"}

\* C23: the payment-success notification of an order is sent only by a
\* confirm whose transaction moved the order to PAID and committed, and at
\* most once per order: a confirm that rolls back and a confirm of an order
\* that is already PAID send none.
C23_NotifiedOnce ==
  /\ \A r \in Req :
       req[r].push = "Pago confirmado" => orders[req[r].order].paid_at # 0
  /\ \A o \in Orders : Cardinality(SuccessPushes(o)) <= 1

\* the step changes something other than the stock an operator edits
CoreStep == req' # req \/ checkout' # checkout

\* C27: the steps of checkout, confirm and webhook change a product's stock
\* only at the commit of a confirm transaction that writes the order PAID;
\* a checkout, a failed or retryable confirm, a confirm that finds the
\* order PAID and a webhook leave every stock as it was.
C27_StockStep ==
  (CoreStep /\ stock' # stock)
  => \E r \in Req :
       /\ Settles(r) /\ req'[r].result = "ok"
       /\ orders'[req[r].order].status = "PAID"
       /\ orders'[req[r].order].paid_at = r
       /\ payments' # payments

C29_RetrieveStep ==
  \A r \in Req :
    (req[r].kind = "confirm" /\ req[r].pc = "retrieve"
       /\ req'[r].result = "provider_error")
    => /\ req'[r].pc = "done"
       /\ UNCHANGED <<stock, orders, payments, intent>>

C29_RetrieveFailureNoChange == [][C29_RetrieveStep]_vars

C29_Witness ==
  \E r1 \in Req, r2 \in Req :
    /\ ConfirmDone(r1) /\ req[r1].result = "provider_error"
    /\ ConfirmDone(r2) /\ req[r2].result = "ok"
    /\ req[r1].order = req[r2].order
    /\ orders[req[r1].order].status = "PAID" /\ orders[req[r1].order].paid_at = r2
    /\ decCount[req[r1].order] = 1

\* C30: an order is PAID, has its stock decremented and has a payment row
\* recorded only for its own payment intent, and only when that intent has
\* succeeded.
C30_PaidByOwnIntent ==
  /\ \A o \in Orders :
       (orders[o].status = "PAID" \/ decCount[o] > 0)
       => intent[orders[o].stripe_payment_intent_id] = "succeeded"
  /\ \A row \in payments :
       row.intent = orders[row.order].stripe_payment_intent_id

\* the sequences that hold the candidates in another order
Reorderings ==
  LET n == Len(candidates)
      Perms == {f \in [1..n -> 1..n] : \A i, j \in 1..n : f[i] = f[j] => i = j}
  IN {[i \in 1..n |-> candidates[f[i]]] : f \in Perms}

\* C21: the promotion the selector returns for a product is the same for
\* every order in which the same candidates are presented.
C21_OrderIndependent ==
  Selected =>
    \A cands \in Reorderings :
      _select_best_promotion(UnitPrice, cands) = pricing.best

\* the webhook request r came without a valid signature or with a body
\* that cannot be parsed
BadDelivery(r) ==
  /\ req[r].kind = "webhook" /\ req[r].sig_header # "none"
  /\ req[r].sig_header \in {"missing", "invalid"}
       \/ req[r].payload = "unparseable"

\* C25: a webhook request with a missing or invalid signature, or with an
\* unparseable payload, is answered with an error before the settlement
\* logic runs: it is never handled, and its steps change no order, payment
\* row or stock.
C25_BadDeliveryInv ==
  \A r \in Req :
    BadDelivery(r) =>
      /\ req[r].pc = "done" /\ req[r].result \in {"rejected", "not_configured"}
      /\ req[r].obs = "none" /\ req[r].order = 0

C25_BadDeliveryStep ==
  \A r \in Req :
    (req'[r] # req[r] /\ BadDelivery(r)')
    => UNCHANGED <<stock, orders, payments>>

C25_UnsignedRejected == []C25_BadDeliveryInv /\ [][C25_BadDeliveryStep]_vars

C25_Witness ==
  /\ \E r \in Req : req[r].sig_header = "invalid" /\ req[r].payload = "event"
        /\ req[r].result = "rejected"
  /\ \E r \in Req : req[r].sig_header = "valid" /\ req[r].result = "ok"
        /\ orders[req[r].order].status = "PAID"

\* r is about to take the lock of product p while holding only locks of
\* products that come before p in the order of the queryset
InLockOrder(r, p) == \A q \in Products : prodLock[q] = r => q < p

\* C26: concurrent settlements of orders with overlapping products take
\* their product row locks in one global order, and every settlement that
\* has started ends (commits or fails): no interleaving leaves two of them
\* waiting for each other.
C26_LockOrderStep ==
  \A r \in Req :
    /\ \A p \in Products :
         (prodLock'[p] = r /\ prodLock[p] # r) => InLockOrder(r, p)
    /\ (req[r].pc = "lock" /\ req'[r].pc = "done")
         => \A p \in ToLock(r) : InLockOrder(r, p)

EngineCalled == pricing.moment # 0

\* the promotion is current at instant t and its scope covers product p
Eligible(row, p, t) ==
  /\ row.is_active
  /\ row.start_date <= t
  /\ row.end_date = NoDate \/ t <= row.end_date
  /\ \/ row.scope = "GLOBAL"
     \/ row.scope = "CATEGORY" /\ category_id(p) \in row.categories
     \/ row.scope = "PRODUCT" /\ p \in row.products

\* C28: the engine prices a product of its set by the promotions that are
\* current at the engine's instant and GLOBAL, of the product's category or
\* of the product, and by no other: the pricing it returns is that of such a
\* promotion and has the greatest discount among them, it is None exactly
\* when none of them gives a discount, and get() of a product outside the
\* engine's set is None.
C28_OnlyEligible ==
  EngineCalled =>
    LET p == pricing.product
        E == {i \in DOMAIN promotions :
                Eligible(promotions[i], p, pricing.moment)}
        D == {_calculate_discount(products[p].price, promotions[i]) : i \in E}
    IN /\ p \notin pricing.engine => pricing.best = None
       /\ p \in pricing.engine =>
            /\ pricing.best = None <=> \A d \in D : d <= 0
            /\ pricing.best # None =>
                 /\ \E i \in E :
                      /\ promotions[i] = pricing.best.promotion
                      /\ _calculate_discount(products[p].price, promotions[i])
                           = pricing.best.discount_per_unit
                 /\ \A d \in D : d <= pricing.best.discount_per_unit

\* a promotion of the product whose window has ended, with a discount
\* above the one returned, did not price the product
C28_Witness ==
  /\ EngineCalled /\ pricing.product \in pricing.engine
  /\ pricing.best # None
  /\ \E i \in DOMAIN promotions :
       /\ promotions[i].is_active
       /\ promotions[i].scope = "PRODUCT"
       /\ pricing.product \in promotions[i].products
       /\ promotions[i].end_date # NoDate
       /\ promotions[i].end_date < pricing.moment
       /\ _calculate_discount(products[pricing.product].price, promotions[i])
            > pricing.best.discount_per_unit

\* x is n / Scale rounded to an integer, a tie going to the even neighbour
RoundsHalfEven(x, n) ==
  /\ 2 * x * Scale - 2 * n \in (0 - Scale)..Scale
  /\ (2 * x * Scale - 2 * n \in {0 - Scale, Scale}) => x % 2 = 0

\* d is the discount per unit the rule of the specification gives
IsRuleDiscount(d, unit_price, promotion) ==
  IF promotion.discount_type = "PERCENT"
    THEN RoundsHalfEven(d, unit_price * promotion.discount_value)
    ELSE d = (IF promotion.discount_value < unit_price
                THEN promotion.discount_value ELSE unit_price)

\* C22: the discount per unit of an order item is unit price x value / 100
\* rounded half-even to the cent for a PERCENT promotion and min(value, unit
\* price) for a fixed amount; an item without promotion is one no current
\* promotion of its product discounts; and price 100.00 with a GLOBAL 10 %
\* promotion and quantity 2 gives unit price 90.00, item total 180.00 and
\* order discount 20.00.
C22_DiscountRule ==
  \A o \in Orders : \A it \in orders[o].order_items :
    LET price == products[it.product].price
        snap == it.promotion_snapshot
    IN /\ snap # None =>
            /\ IsRuleDiscount(snap.discount_per_unit, price, snap.promotion)
            /\ it.unit_price = price - snap.discount_per_unit
            /\ it.discount_amount = snap.discount_per_unit * it.quantity
            /\ it.total_price = it.unit_price * it.quantity
       /\ snap = None =>
            /\ it.unit_price = price /\ it.discount_amount = 0
            /\ \A i \in DOMAIN promotions :
                 Eligible(promotions[i], it.product, now)
                 => IsRuleDiscount(0, price, promotions[i])
       /\ ( /\ price = 10000 /\ it.quantity = 2
            /\ promotions = <<Promotion("GLOBAL", "PERCENT", 1000, {}, {})>>
            /\ Cardinality(orders[o].order_items) = 1 )
          => /\ it.unit_price = 9000 /\ it.total_price = 18000
             /\ orders[o].discount_amount = 2000

\* the checkout of price 100.00, GLOBAL 10 %, quantity 2
C22_Witness ==
  \E o \in Orders : \E it \in orders[o].order_items :
    /\ products[it.product].price = 10000 /\ it.quantity = 2
    /\ promotions = <<Promotion("GLOBAL", "PERCENT", 1000, {}, {})>>
    /\ orders[o].order_items = {it}
    /\ it.unit_price = 9000 /\ it.total_price = 18000
    /\ orders[o].discount_amount = 2000 /\ orders[o].total_amount = 18000

\* C24: once an order exists, no step changes its item snapshots (product
\* name, SKU, unit price, discount, promotion snapshot, total price) or its
\* amounts: not an edit of a product or of a promotion, not the passing of
\* a promotion's window, not a step of a confirm call or of a webhook.
C24_FrozenStep ==
  \A o \in Orders :
    orders[o].status # "NONE" =>
      /\ orders'[o].order_items = orders[o].order_items
      /\ Amounts(orders'[o]) = Amounts(orders[o])

C24_SnapshotsFrozen == [][C24_FrozenStep]_vars

\* a paid order whose item was discounted by a promotion that has ended
\* and has since been edited, at a price, name and SKU the product no
\* longer has
C24_Witness ==
  \E o \in Orders : \E it \in orders[o].order_items :
    /\ orders[o].status = "PAID"
    /\ it.promotion_snapshot # None
    /\ it.promotion_snapshot.promotion.end_date # NoDate
    /\ it.promotion_snapshot.promotion.end_date < now
    /\ promotions[1] # it.promotion_snapshot.promotion
    /\ products[it.product].price # it.unit_price + it.promotion_snapshot.discount_per_unit
    /\ products[it.product].name # it.product_name
    /\ products[it.product].sku # it.product_sku
====
